---- MODULE Spec2Model ----
(***************************************************************************)
(* Bedrock agent bridge: the Lambda-style handler (three variants kept in  *)
(* the repository), the signed request issuer as seen by the handler, and  *)
(* the event-stream response decoder.                                      *)
(*                                                                         *)
(* Strings are sequences of one-character strings, so that split, indexOf, *)
(* includes, replace, base64 decoding and JSON parsing are computed on     *)
(* characters as the code computes them.  Positions follow JavaScript:     *)
(* 0-based, indexOf gives -1 when nothing is found.                        *)
(***************************************************************************)
EXTENDS Integers, Sequences, FiniteSets, TLC

(***************************************************************************)
(* JavaScript string primitives used by the decoder                        *)
(***************************************************************************)

\* true when pat occurs in s at 0-based position i
MatchAt(s, pat, i) ==
    /\ i >= 0
    /\ i + Len(pat) <= Len(s)
    /\ \A k \in 1..Len(pat) : s[i + k] = pat[k]

\* String.prototype.indexOf(pat, from): first 0-based position >= from, or -1
RECURSIVE indexOfFrom(_, _, _)
indexOfFrom(s, pat, from) ==
    IF from + Len(pat) > Len(s) THEN -1
    ELSE IF MatchAt(s, pat, from) THEN from
    ELSE indexOfFrom(s, pat, from + 1)

\* String.prototype.indexOf(pat)
indexOf(s, pat) == indexOfFrom(s, pat, 0)

\* String.prototype.includes(pat)
includes(s, pat) == indexOf(s, pat) # -1

\* String.prototype.substring(a, b) for 0 <= a <= b <= length
substring(s, a, b) == SubSeq(s, a + 1, b)

\* String.prototype.substring(a)
substringFrom(s, a) == SubSeq(s, a + 1, Len(s))

\* String.prototype.split(sep) for a non-empty separator; splitAt is its
\* step, i being the position of the first separator
RECURSIVE split(_, _)
splitAt(s, sep, i) ==
    IF i = -1 THEN << s >>
    ELSE << substring(s, 0, i) >> \o split(substringFrom(s, i + Len(sep)), sep)

split(s, sep) == splitAt(s, sep, indexOf(s, sep))

\* String.prototype.replace(/pat/g, ""): one left-to-right pass over the
\* non-overlapping occurrences of the literal pat; removeAt is its step
RECURSIVE replaceAll(_, _)
removeAt(s, pat, i) ==
    IF i = -1 THEN s
    ELSE substring(s, 0, i) \o replaceAll(substringFrom(s, i + Len(pat)), pat)

replaceAll(s, pat) == removeAt(s, pat, indexOf(s, pat))

\* Array.prototype.join(sep) on strings
RECURSIVE join(_, _)
join(arr, sep) ==
    IF Len(arr) = 0 THEN << >>
    ELSE IF Len(arr) = 1 THEN arr[1]
    ELSE arr[1] \o sep \o join(Tail(arr), sep)

(***************************************************************************)
(* Character tables                                                        *)
(***************************************************************************)

\* the base64 alphabet, value v at position v + 1
Base64Table ==
    << "A","B","C","D","E","F","G","H","I","J","K","L","M","N","O","P",
       "Q","R","S","T","U","V","W","X","Y","Z","a","b","c","d","e","f",
       "g","h","i","j","k","l","m","n","o","p","q","r","s","t","u","v",
       "w","x","y","z","0","1","2","3","4","5","6","7","8","9","+","/" >>

\* printable ASCII, code c at position c - 31
AsciiTable ==
    << " ","!","\"","#","$","%","&","'","(",")","*","+",",","-",".","/",
       "0","1","2","3","4","5","6","7","8","9",":",";","<","=",">","?",
       "@","A","B","C","D","E","F","G","H","I","J","K","L","M","N","O",
       "P","Q","R","S","T","U","V","W","X","Y","Z","[","\\","]","^","_",
       "<backtick>","a","b","c","d","e","f","g","h","i","j","k","l","m","n","o",
       "p","q","r","s","t","u","v","w","x","y","z","{","|","}","~" >>

\* what a byte that is not printable ASCII decodes to (U+FFFD for a lone
\* byte >= 0x80 under Buffer.toString("utf-8"))
ReplacementChar == "<U+FFFD>"

\* the character of byte b
Chr(b) == IF b >= 32 /\ b <= 126 THEN AsciiTable[b - 31] ELSE ReplacementChar

\* the 6-bit value of a base64 character (URL-safe - and _ included, as
\* Node accepts them), or -1
unbase64(c) ==
    IF c = "-" THEN 62
    ELSE IF c = "_" THEN 63
    ELSE IF \E i \in 1..64 : Base64Table[i] = c
         THEN (CHOOSE i \in 1..64 : Base64Table[i] = c) - 1
         ELSE -1

\* the bytes that a run of 6-bit values stands for: 4 values give 3 bytes,
\* a trailing 3 give 2, a trailing 2 give 1, a trailing 1 gives none
RECURSIVE sextetsToBytes(_)
sextetsToBytes(v) ==
    IF Len(v) < 2 THEN << >>
    ELSE IF Len(v) = 2 THEN << (v[1] * 4 + v[2] \div 16) % 256 >>
    ELSE IF Len(v) = 3 THEN << (v[1] * 4 + v[2] \div 16) % 256,
                               (v[2] * 16 + v[3] \div 4) % 256 >>
    ELSE << (v[1] * 4 + v[2] \div 16) % 256,
            (v[2] * 16 + v[3] \div 4) % 256,
            (v[3] * 64 + v[4]) % 256 >>
         \o sextetsToBytes(SubSeq(v, 5, Len(v)))

\* bytes to text, one character per byte
bytesToText(bytes) == [i \in 1..Len(bytes) |-> Chr(bytes[i])]

(***************************************************************************)
(* Base64 decoders                                                         *)
(***************************************************************************)

\* the 6-bit values Node's decoder reads from s starting at 1-based position
\* p: a character outside the alphabet is skipped, "=" stops the decoding
RECURSIVE legalSextets(_, _)
legalSextets(s, p) ==
    IF p > Len(s) THEN << >>
    ELSE IF s[p] = "=" THEN << >>
    ELSE IF unbase64(s[p]) = -1 THEN legalSextets(s, p + 1)
    ELSE << unbase64(s[p]) >> \o legalSextets(s, p + 1)

\* Buffer.from(s, "base64").toString("utf-8"): never throws
BufferFromBase64ToString(s) == bytesToText(sextetsToBytes(legalSextets(s, 1)))

\* String(undefined), what base64.decode receives for a missing array element
UndefinedAsString == <<"u","n","d","e","f","i","n","e","d">>

\* the white space base64.decode strips before decoding
Base64SpaceChars == {" ", "\t", "\n", "\f", "\r"}

\* s without the characters of set drop
RECURSIVE stripChars(_, _)
stripChars(s, drop) ==
    IF Len(s) = 0 THEN << >>
    ELSE IF s[1] \in drop THEN stripChars(Tail(s), drop)
    ELSE << s[1] >> \o stripChars(Tail(s), drop)

\* input.replace(/==?$/, ""): one or two trailing "=" removed
stripPadding(s) ==
    IF Len(s) >= 2 /\ s[Len(s)] = "=" /\ s[Len(s) - 1] = "="
    THEN SubSeq(s, 1, Len(s) - 2)
    ELSE IF Len(s) >= 1 /\ s[Len(s)] = "=" THEN SubSeq(s, 1, Len(s) - 1)
    ELSE s

\* /[^+a-zA-Z0-9/]/.test(s)
hasNonBase64Char(s) ==
    \E i \in 1..Len(s) : \A j \in 1..64 : Base64Table[j] # s[i]

\* base64.decode of the base-64 package, [ok, text]; ok = FALSE stands for
\* the InvalidCharacterError it throws.  decodeUnpadded is its last stage, on
\* the input without white space and padding
decodeUnpadded(unpadded) ==
    IF Len(unpadded) % 4 = 1 \/ hasNonBase64Char(unpadded)
    THEN [ok |-> FALSE, text |-> << >>]
    ELSE [ok |-> TRUE,
          text |-> bytesToText(sextetsToBytes(
                     [i \in 1..Len(unpadded) |-> unbase64(unpadded[i])]))]

\* the stage before: padding is removed when the length is a multiple of 4
decodeStripped(stripped) ==
    decodeUnpadded(IF Len(stripped) % 4 = 0 THEN stripPadding(stripped) ELSE stripped)

base64decode(input) == decodeStripped(stripChars(input, Base64SpaceChars))

(***************************************************************************)
(* JSON.parse                                                              *)
(*                                                                         *)
(* A parsed value is the record [t, str, truthy, textT, textStr,           *)
(* textTruthy]: its JavaScript type, its characters when a string, its     *)
(* truthiness, and for an object the type, characters and truthiness of    *)
(* its own property "text" (textT = "undefined" when it has none).         *)
(* Positions inside the parser are 1-based.                                *)
(***************************************************************************)

JsonWhitespace == {" ", "\t", "\n", "\r"}

Digits == {"0", "1", "2", "3", "4", "5", "6", "7", "8", "9"}

HexDigits == Digits \cup {"a", "b", "c", "d", "e", "f", "A", "B", "C", "D", "E", "F"}

TextKey == <<"t","e","x","t">>

JsValue(t, str, truthy) ==
    [t |-> t, str |-> str, truthy |-> truthy,
     textT |-> "undefined", textStr |-> << >>, textTruthy |-> FALSE]

JsUndefined == JsValue("undefined", << >>, FALSE)

ParseFail == [ok |-> FALSE, pos |-> 0, val |-> JsUndefined]

ParseOk(pos, val) == [ok |-> TRUE, pos |-> pos, val |-> val]

\* first position >= p that holds no white space
RECURSIVE skipWs(_, _)
skipWs(s, p) ==
    IF p <= Len(s) /\ s[p] \in JsonWhitespace THEN skipWs(s, p + 1) ELSE p

\* first position >= p that holds no digit
RECURSIVE skipDigits(_, _)
skipDigits(s, p) ==
    IF p <= Len(s) /\ s[p] \in Digits THEN skipDigits(s, p + 1) ELSE p

\* the character an escape \c stands for
Unescape(c) ==
    CASE c = "n" -> "\n"
      [] c = "t" -> "\t"
      [] c = "r" -> "\r"
      [] c = "f" -> "\f"
      [] c = "b" -> "<BS>"
      [] OTHER   -> c

\* a string whose opening quote is at p - 1: scans from p, acc holds the
\* characters read so far
RECURSIVE parseStringBody(_, _, _)
parseStringBody(s, p, acc) ==
    IF p > Len(s) THEN ParseFail
    ELSE IF s[p] = "\"" THEN ParseOk(p + 1, JsValue("string", acc, Len(acc) > 0))
    ELSE IF s[p] \in {"\n", "\t", "\r", "\f"} THEN ParseFail
    ELSE IF s[p] = "\\" THEN
        IF p + 1 > Len(s) THEN ParseFail
        ELSE IF s[p + 1] \in {"\"", "\\", "/", "b", "f", "n", "r", "t"}
             THEN parseStringBody(s, p + 2, Append(acc, Unescape(s[p + 1])))
        ELSE IF s[p + 1] = "u" /\ p + 5 <= Len(s)
                /\ \A k \in 2..5 : s[p + k] \in HexDigits
             THEN parseStringBody(s, p + 6, Append(acc, "<\\u>"))
        ELSE ParseFail
    ELSE parseStringBody(s, p + 1, Append(acc, s[p]))

\* the end of the integer part that starts at q: "0", or a run of digits
intEnd(s, q) ==
    IF q <= Len(s) /\ s[q] = "0" THEN q + 1 ELSE skipDigits(s, q)

\* the end of the fraction that may start at i: "." and at least one digit
fracEnd(s, i) ==
    IF i + 1 <= Len(s) /\ s[i] = "." /\ s[i + 1] \in Digits
    THEN skipDigits(s, i + 1) ELSE i

\* the end of the exponent that may start at f: [eE][+-]? and at least one
\* digit; 0 when the digits are missing
expEnd(s, f) ==
    IF f <= Len(s) /\ s[f] \in {"e", "E"}
    THEN IF f + 1 <= Len(s) /\ s[f + 1] \in {"+", "-"}
         THEN (IF skipDigits(s, f + 2) = f + 2 THEN 0 ELSE skipDigits(s, f + 2))
         ELSE (IF skipDigits(s, f + 1) = f + 1 THEN 0 ELSE skipDigits(s, f + 1))
    ELSE f

\* the number whose digits start at q, integer part ending at i, fraction at f
numberValue(s, q, i, f) ==
    IF i = q \/ (i <= Len(s) /\ s[i] = "." /\ f = i) \/ expEnd(s, f) = 0
    THEN ParseFail
    ELSE ParseOk(expEnd(s, f),
                 JsValue("number", << >>,
                         \E k \in q..(f - 1) : s[k] \notin {"0", "."}))

\* the number whose digits start at q
numberFrom(s, q) == numberValue(s, q, intEnd(s, q), fracEnd(s, intEnd(s, q)))

\* a number starting at p: -?(0|[1-9][0-9]*)(.[0-9]+)?([eE][+-]?[0-9]+)?
parseNumber(s, p) ==
    IF p <= Len(s) /\ s[p] = "-" THEN numberFrom(s, p + 1) ELSE numberFrom(s, p)

\* the literal lit at p
parseLiteral(s, p, lit, val) ==
    IF MatchAt(s, lit, p - 1) THEN ParseOk(p + Len(lit), val) ELSE ParseFail

\* The parser proper is a pushdown automaton.  Its configuration: the next
\* position p, the stack of open containers ("obj", "arr"), what is expected
\* next, the type of the outermost value (top), whether the key just read in
\* the outermost object is "text" (keyIsText), and the property "text" of
\* the outermost object as read so far.
ParserStart ==
    [p |-> 1, stack |-> << >>, expect |-> "value", top |-> "undefined",
     keyIsText |-> FALSE,
     textT |-> "undefined", textStr |-> << >>, textTruthy |-> FALSE]

ParserFail(cfg) == [cfg EXCEPT !.expect = "fail"]

\* what follows a finished value
afterValue(stack) == IF Len(stack) = 0 THEN "eof" ELSE "commaOrEnd"

\* a value of type t starts where one is expected: it is the outermost
\* value, or the property "text" of the outermost object (a later
\* duplicate of the key replaces an earlier one), or neither
noteValue(cfg, t, str, truthy) ==
    IF Len(cfg.stack) = 0 THEN [cfg EXCEPT !.top = t]
    ELSE IF Len(cfg.stack) = 1 /\ cfg.stack[1] = "obj" /\ cfg.keyIsText
    THEN [cfg EXCEPT !.textT = t, !.textStr = str, !.textTruthy = truthy]
    ELSE cfg

\* a string, number or literal was read (r is what its parser gave)
scalarDone(cfg, r) ==
    IF ~r.ok THEN ParserFail(cfg)
    ELSE [noteValue(cfg, r.val.t, r.val.str, r.val.truthy)
            EXCEPT !.p = r.pos, !.expect = afterValue(cfg.stack)]

\* a key was read (r is what parseStringBody gave)
keyDone(cfg, r) ==
    IF ~r.ok THEN ParserFail(cfg)
    ELSE [cfg EXCEPT !.p = r.pos, !.expect = "colon",
                     !.keyIsText = (Len(cfg.stack) = 1 /\ r.val.str = TextKey)]

\* "{" or "[" at q opens a container
openContainer(cfg, q, kind, t, expect) ==
    [noteValue(cfg, t, << >>, TRUE)
        EXCEPT !.p = q + 1, !.stack = Append(cfg.stack, kind), !.expect = expect]

\* "}" or "]" at q closes the innermost container, which must be of kind
closeContainer(cfg, q, kind) ==
    IF Len(cfg.stack) = 0 \/ cfg.stack[Len(cfg.stack)] # kind THEN ParserFail(cfg)
    ELSE [cfg EXCEPT !.p = q + 1,
                     !.stack = SubSeq(cfg.stack, 1, Len(cfg.stack) - 1),
                     !.expect = afterValue(SubSeq(cfg.stack, 1, Len(cfg.stack) - 1))]

\* a value is expected and character c stands at q
valueAt(s, cfg, q, c) ==
    CASE c = "{"  -> openContainer(cfg, q, "obj", "object", "keyOrEnd")
      [] c = "["  -> openContainer(cfg, q, "arr", "array", "valueOrEnd")
      [] c = "\"" -> scalarDone(cfg, parseStringBody(s, q + 1, << >>))
      [] c = "t"  -> scalarDone(cfg, parseLiteral(s, q, <<"t","r","u","e">>,
                                                  JsValue("boolean", << >>, TRUE)))
      [] c = "f"  -> scalarDone(cfg, parseLiteral(s, q, <<"f","a","l","s","e">>,
                                                  JsValue("boolean", << >>, FALSE)))
      [] c = "n"  -> scalarDone(cfg, parseLiteral(s, q, <<"n","u","l","l">>,
                                                  JsValue("null", << >>, FALSE)))
      [] OTHER    -> scalarDone(cfg, parseNumber(s, q))

\* one move of the automaton, q the first position without white space
parserMove(s, cfg, q) ==
    IF cfg.expect = "eof"
    THEN [cfg EXCEPT !.expect = IF q = Len(s) + 1 THEN "done" ELSE "fail"]
    ELSE IF q > Len(s) THEN ParserFail(cfg)
    ELSE CASE cfg.expect = "value" -> valueAt(s, cfg, q, s[q])
           [] cfg.expect = "valueOrEnd" ->
                IF s[q] = "]" THEN closeContainer(cfg, q, "arr")
                ELSE valueAt(s, [cfg EXCEPT !.expect = "value"], q, s[q])
           [] cfg.expect = "keyOrEnd" ->
                IF s[q] = "}" THEN closeContainer(cfg, q, "obj")
                ELSE IF s[q] = "\"" THEN keyDone(cfg, parseStringBody(s, q + 1, << >>))
                ELSE ParserFail(cfg)
           [] cfg.expect = "key" ->
                IF s[q] = "\"" THEN keyDone(cfg, parseStringBody(s, q + 1, << >>))
                ELSE ParserFail(cfg)
           [] cfg.expect = "colon" ->
                IF s[q] = ":" THEN [cfg EXCEPT !.p = q + 1, !.expect = "value"]
                ELSE ParserFail(cfg)
           [] cfg.expect = "commaOrEnd" ->
                IF s[q] = ","
                THEN [cfg EXCEPT !.p = q + 1,
                                 !.expect = IF cfg.stack[Len(cfg.stack)] = "obj"
                                            THEN "key" ELSE "value"]
                ELSE IF s[q] = "}" THEN closeContainer(cfg, q, "obj")
                ELSE IF s[q] = "]" THEN closeContainer(cfg, q, "arr")
                ELSE ParserFail(cfg)

\* the automaton run to its end
RECURSIVE parserRun(_, _)
parserRun(s, cfg) ==
    IF cfg.expect \in {"done", "fail"} THEN cfg
    ELSE parserRun(s, parserMove(s, cfg, skipWs(s, cfg.p)))

\* what JSON.parse gives for the final configuration
parserResult(cfg) ==
    IF cfg.expect = "done"
    THEN [ok |-> TRUE,
          val |-> [t |-> cfg.top, str |-> << >>, truthy |-> TRUE,
                   textT |-> cfg.textT, textStr |-> cfg.textStr,
                   textTruthy |-> cfg.textTruthy]]
    ELSE [ok |-> FALSE, val |-> JsUndefined]

\* JSON.parse(s): [ok, val]; ok = FALSE stands for the SyntaxError it throws
JSONparse(s) == parserResult(parserRun(s, ParserStart))

(***************************************************************************)
(* Literals of the decoder                                                 *)
(***************************************************************************)

\* ":message-type"
MessageTypeMarker == <<":","m","e","s","s","a","g","e","-","t","y","p","e">>

\* "bytes"
BytesMarker == <<"b","y","t","e","s">>

\* the double quote, the separator of split('"')
Quote == << "\"" >>

\* 'finalResponse":'
searchString == <<"f","i","n","a","l","R","e","s","p","o","n","s","e","\"",":">>

\* '"}'
QuoteBrace == <<"\"","}">>

\* "{input:{value:"
NoiseInput == <<"{","i","n","p","u","t",":","{","v","a","l","u","e",":">>

\* ",source:null}}"
NoiseSource == <<",","s","o","u","r","c","e",":","n","u","l","l","}","}">>

\* "Decoded response: "
LblDecoded == <<"D","e","c","o","d","e","d"," ","r","e","s","p","o","n","s","e",":"," ">>

\* "Split Response: "
LblSplit == <<"S","p","l","i","t"," ","R","e","s","p","o","n","s","e",":"," ">>

\* "length of split: "
LblLength == <<"l","e","n","g","t","h"," ","o","f"," ","s","p","l","i","t",":"," ">>

\* "no bytes at index "
LblNoBytesAt == <<"n","o"," ","b","y","t","e","s"," ","a","t"," ","i","n","d","e","x"," ">>

\* "Lst Response: "
LblLast == <<"L","s","t"," ","R","e","s","p","o","n","s","e",":"," ">>

\* "Bytes in last response"
LblBytesInLast == <<"B","y","t","e","s"," ","i","n"," ","l","a","s","t"," ","r","e","s","p","o","n","s","e">>

\* "no bytes in last response"
LblNoBytesInLast == <<"n","o"," ","b","y","t","e","s"," ","i","n"," ","l","a","s","t"," ","r","e","s","p","o","n","s","e">>

\* "Error parsing JSON: "
LblJsonError == <<"E","r","r","o","r"," ","p","a","r","s","i","n","g"," ","J","S","O","N",":"," ">>

\* the message of the SyntaxError JSON.parse throws
JsonErrorMessage == <<"U","n","e","x","p","e","c","t","e","d"," ","t","o","k","e","n"," ","i","n"," ","J","S","O","N">>

\* "SyntaxError: ", what `${err}` puts before the message
SyntaxErrorPrefix == <<"S","y","n","t","a","x","E","r","r","o","r",":"," ">>

\* String(n) for n >= 0
RECURSIVE numberToString(_)
numberToString(n) ==
    IF n < 10 THEN << AsciiTable[n + 17] >>
    ELSE numberToString(n \div 10) \o << AsciiTable[(n % 10) + 17] >>

\* JSON.stringify of one string: quoted, with " and \ escaped
RECURSIVE escapeJson(_)
escapeJson(s) ==
    IF Len(s) = 0 THEN << >>
    ELSE (IF s[1] \in {"\"", "\\"} THEN << "\\", s[1] >> ELSE << s[1] >>)
         \o escapeJson(Tail(s))

\* JSON.stringify of an array of strings
stringifyArray(arr) ==
    << "[" >> \o join([i \in 1..Len(arr) |-> Quote \o escapeJson(arr[i]) \o Quote],
                      << "," >>) \o << "]" >>

(***************************************************************************)
(* decodeResponse, TypeScript handlers (both copies of index.ts; they      *)
(* differ only in how a caught error is rendered)                          *)
(***************************************************************************)

\* the handler variants kept in the repository
Variants == {"ts1", "ts2", "mjs"}

\* one capturedOutput.push: the line pushed, the 0-based index of the segment
\* whose loop iteration pushed it (-1 outside the loop) and what it reports
Entry(seg, kind, line) == [seg |-> seg, kind |-> kind, line |-> line]

\* what a decoder returns or throws
Returned(trace, answer) ==
    [threw |-> FALSE, name |-> "", message |-> "", trace |-> trace, answer |-> answer]

Thrown(name, message) ==
    [threw |-> TRUE, name |-> name, message |-> message, trace |-> << >>, answer |-> << >>]

\* the push of a segment that includes "bytes", parts its split on the
\* double quote.  Buffer.from(..., "base64") and toString("utf-8") never
\* throw, so the catch around them is never entered.
decodedEntries(idx, parts) ==
    IF Len(parts) > 3
    THEN << Entry(idx, "decoded", BufferFromBase64ToString(parts[4])) >>
    ELSE << >>

\* the pushes of loop iteration idx, seg being splitResponse[idx]
segmentEntries(seg, idx) ==
    IF includes(seg, BytesMarker)
    THEN decodedEntries(idx, split(seg, Quote))
    ELSE << Entry(idx, "nobytes", LblNoBytesAt \o numberToString(idx)),
            Entry(idx, "segment", seg) >>

\* the pushes of the loop from iteration idx to the end
RECURSIVE loopEntries(_, _)
loopEntries(splitResponse, idx) ==
    IF idx >= Len(splitResponse) THEN << >>
    ELSE segmentEntries(splitResponse[idx + 1], idx)
         \o loopEntries(splitResponse, idx + 1)

\* the rendering of a caught error: err.message, or `${err}` in the first copy
renderError(variant, prefix, message) ==
    IF variant = "ts1" THEN prefix \o message ELSE message

\* finalResponse = "" as a JavaScript value
EmptyString == JsValue("string", << >>, FALSE)

\* what the last segment leaves in finalResponse when it includes "bytes",
\* parts its split on the double quote
bytesValue(parts) ==
    IF Len(parts) > 3
    THEN JsValue("string", BufferFromBase64ToString(parts[4]), TRUE)
    ELSE EmptyString

\* the branch taken when the last segment includes "bytes":
\* [entries, value], value the JavaScript value left in finalResponse
bytesBranch(lastResponse) ==
    [entries |-> << Entry(-1, "bytesInLast", LblBytesInLast) >>,
     value   |-> bytesValue(split(lastResponse, Quote))]

\* the pushes of the other branch when nothing goes wrong
Announce == << Entry(-1, "noBytesInLast", LblNoBytesInLast) >>

\* fallbackParsed without the try around JSON.parse: the SyntaxError is
\* not caught and leaves decodeResponse
fallbackParsedUncaught(parsed, variant) ==
    IF ~parsed.ok
    THEN [entries |-> Announce, value |-> JsValue("SyntaxError", << >>, TRUE)]
    ELSE [entries |-> Announce,
          value   |-> IF parsed.val.textTruthy
                      THEN JsValue(parsed.val.textT, parsed.val.textStr, TRUE)
                      ELSE EmptyString]

\* the fallback once JSON.parse has run on part2: a SyntaxError is caught
\* and pushed; otherwise finalResponse = parsed["text"] || "".  part2 ends
\* with '"}', so a value that parses is an object.
fallbackParsed(parsed, variant) ==
    IF ~parsed.ok
    THEN [entries |-> Announce \o
             << Entry(-1, "jsonError",
                      LblJsonError \o renderError(variant, SyntaxErrorPrefix,
                                                  JsonErrorMessage)) >>,
          value |-> EmptyString]
    ELSE [entries |-> Announce,
          value   |-> IF parsed.val.textTruthy
                      THEN JsValue(parsed.val.textT, parsed.val.textStr, TRUE)
                      ELSE EmptyString]

\* fallbackClosed with part2 cut one character early: the closing brace
\* of '"}' is left out
fallbackClosedShort(part1, endIdx, variant) ==
    IF endIdx = -1 THEN [entries |-> Announce, value |-> EmptyString]
    ELSE fallbackParsed(JSONparse(substring(part1, 0, endIdx + 1)), variant)

\* the fallback once '"}' has been looked for in part1
fallbackClosed(part1, endIdx, variant) ==
    IF endIdx = -1 THEN [entries |-> Announce, value |-> EmptyString]
    ELSE fallbackParsed(JSONparse(substring(part1, 0, endIdx + 2)), variant)

\* the fallback once 'finalResponse":' has been looked for in the text
fallbackFound(responseText, startIdx, variant) ==
    IF startIdx = -1 THEN [entries |-> Announce, value |-> EmptyString]
    ELSE fallbackClosed(
             substringFrom(responseText, startIdx + Len(searchString)),
             indexOf(substringFrom(responseText, startIdx + Len(searchString)),
                     QuoteBrace),
             variant)

\* the branch taken when the last segment does not include "bytes"
fallbackBranch(responseText, variant) ==
    fallbackFound(responseText, indexOf(responseText, searchString), variant)

\* the three replacements, in the order of the source, one pass each
normalize(s) ==
    replaceAll(replaceAll(replaceAll(s, Quote), NoiseInput), NoiseSource)

\* the end of decodeResponse: the replacements are methods of strings, so a
\* finalResponse that is no string throws a TypeError
finishDecode(entries, final) ==
    IF final.value.t # "string"
    THEN Thrown("TypeError", "finalResponse.replace is not a function")
    ELSE Returned(entries \o final.entries, normalize(final.value.str))

\* the answer extraction after the loop
finalBranch(responseText, lastResponse, variant) ==
    IF includes(lastResponse, BytesMarker)
    THEN bytesBranch(lastResponse)
    ELSE fallbackBranch(responseText, variant)

\* decodeResponse once the text is split
decodeSplit(responseText, splitResponse, variant) ==
    finishDecode(
        << Entry(-1, "raw", LblDecoded \o responseText),
           Entry(-1, "split", LblSplit \o stringifyArray(splitResponse)),
           Entry(-1, "length", LblLength \o numberToString(Len(splitResponse))) >>
        \o loopEntries(splitResponse, 0)
        \o << Entry(-1, "last", LblLast \o splitResponse[Len(splitResponse)]) >>,
        finalBranch(responseText, splitResponse[Len(splitResponse)], variant))

\* decodeResponse once response.text() has given responseText
decodeResponseTs(responseText, variant) ==
    decodeSplit(responseText, split(responseText, MessageTypeMarker), variant)

(***************************************************************************)
(* decodeResponse, lambda.mjs                                              *)
(***************************************************************************)

\* part.split("\"")[3], undefined rendered by String() when it is missing
fourthField(parts) ==
    IF Len(parts) > 3 THEN parts[4] ELSE UndefinedAsString

\* the loop from the 1-based segment i on, finalResponse so far in acc;
\* afterDecodeMjs is the rest of an iteration once base64.decode has run
RECURSIVE decodeLoopMjs(_, _, _)
afterDecodeMjs(splitResponse, i, decoded) ==
    IF ~decoded.ok
    THEN Thrown("InvalidCharacterError",
                "Invalid character: the string to be decoded is not correctly encoded.")
    ELSE decodeLoopMjs(splitResponse, i + 1, decoded.text)

decodeLoopMjs(splitResponse, i, acc) ==
    IF i > Len(splitResponse) THEN Returned(<< >>, acc)
    ELSE IF includes(splitResponse[i], BytesMarker)
    THEN afterDecodeMjs(splitResponse, i,
                        base64decode(fourthField(split(splitResponse[i], Quote))))
    ELSE decodeLoopMjs(splitResponse, i + 1, acc)

\* decodeResponse once response.text() has given responseBody: no trace is
\* returned, the answer is not normalized
decodeResponseMjs(responseBody) ==
    decodeLoopMjs(split(responseBody, MessageTypeMarker), 1, << >>)

\* the decoder of a variant
decodeResponse(responseText, variant) ==
    IF variant = "mjs" THEN decodeResponseMjs(responseText)
    ELSE decodeResponseTs(responseText, variant)

(***************************************************************************)
(* JavaScript values of the event                                          *)
(***************************************************************************)

JStr(v) == [t |-> "string", v |-> v]

JBool(b) == [t |-> "boolean", v |-> IF b THEN "true" ELSE "false"]

JUndef == [t |-> "undefined", v |-> "undefined"]

\* `${x}`: a string is itself, undefined renders as "undefined"
templateString(x) == x.v

\* the events a caller can pass: the route hands over whatever JSON the
\* request carried, an object with or without the fields, or null
EndSessionValues ==
    {JUndef, JStr("true"), JBool(TRUE), JStr("false"), JBool(FALSE), JStr("yes")}

Events ==
    [isNull : {FALSE},
     sessionId : {JStr("s1"), JUndef},
     question : {JStr("Hello?"), JUndef},
     endSession : EndSessionValues]
    \cup {[isNull |-> TRUE, sessionId |-> JUndef, question |-> JUndef,
           endSession |-> JUndef]}

(***************************************************************************)
(* What the remote service and the transport can do                        *)
(***************************************************************************)

\* HTTP statuses the agent service answers with
Statuses == {200, 403, 500}

\* bodies of the handler specification
HandlerBodies ==
    { <<"x",":","m","e","s","s","a","g","e","-","t","y","p","e","{","\"","b","y","t","e","s","\"",":","\"","S","G","k","=","\"","}">>,
      <<"{","\"","b","y","t","e","s","\"",":","\"","S","G","k","=","\"","}",":","m","e","s","s","a","g","e","-","t","y","p","e","t","r","a","c","e">>,
      <<"{","\"","t","r","a","c","e","\"",":","{","\"","f","i","n","a","l","R","e","s","p","o","n","s","e","\"",":","{","\"","t","e","x","t","\"",":","\"","H","i"," ","t","h","e","r","e","\"","}","}","}">>,
      <<"{","\"","m","e","s","s","a","g","e","\"",":","\"","F","o","r","b","i","d","d","e","n","\"","}">>,
      <<"{","\"","b","y","t","e","s","\"",":","\"","S","!","k","\"","}",":","m","e","s","s","a","g","e","-","t","y","p","e","b","y","t","e","s">>,
      <<"f","i","n","a","l","R","e","s","p","o","n","s","e","\"",":","{","\"","t","e","x","t","\"",":","5",",","\"","a","\"",":","\"","\"","}">>,
      << >> }

NoError == [threw |-> FALSE, name |-> "", message |-> ""]

Error(name, message) == [threw |-> TRUE, name |-> name, message |-> message]

CredentialsError ==
    Error("CredentialsProviderError", "Could not load credentials from any providers")

NetworkError == Error("FetchError", "request to the agent endpoint failed")

BodyReadError == Error("FetchError", "Invalid response body: Premature close")

NullEventError == Error("TypeError", "Cannot read properties of null")

NoRequest ==
    [sessionPath |-> "", inputText |-> JUndef, enableTrace |-> FALSE,
     endSession |-> FALSE, method |-> "", service |-> ""]

NoResponse == [status |-> 0, body |-> << >>]

NoDecoded ==
    [entered |-> FALSE, read |-> FALSE, threw |-> FALSE, trace |-> << >>,
     answer |-> << >>]

NoEnvelope == [statusCode |-> 0]

(***************************************************************************)
(* State                                                                   *)
(***************************************************************************)

VARIABLES
    variant,    \* which lambdaHandler of the repository runs
    event,      \* the event it was invoked with
    pc,         \* where the invocation stands
    request,    \* the outbound request built by askQuestion
    sent,       \* how many requests went out to the agent service
    response,   \* the response fetch resolved with
    decoded,    \* how decodeResponse ended: whether it was entered, whether
                \* response.text() gave the text, its trace and answer or a throw
    failure,    \* the error the catch of lambdaHandler received, if any
    envelope,   \* the envelope lambdaHandler returned
    escaped,    \* the exception that left lambdaHandler, if any
    routePc,    \* where the POST /api/invoke-agent route stands
    routeFailure, \* the error the catch of the route received, if any
    routeAnswer,  \* the HTTP response the route gave
    chatKind,   \* which Chat component is mounted
    messages,   \* the displayed list of the Chat component
    store,      \* the records of the 'messages' object store of IndexedDB
    isLoading,  \* the loading flag of the Chat component
    loadPc,     \* where the loadHistory started at mount stands
    submitPc,   \* where the onSubmit in progress stands
    exchange,   \* the exchange in progress or last ended
    submits     \* how many times the form was submitted

\* the state of the route and of the Chat component
routeVars == << routePc, routeFailure, routeAnswer >>

chatVars ==
    << chatKind, messages, store, isLoading, loadPc, submitPc, exchange, submits >>

vars ==
    << variant, event, pc, request, sent, response, decoded, failure, envelope,
       escaped, routeVars, chatVars >>

(***************************************************************************)
(* lambdaHandler                                                           *)
(***************************************************************************)

\* the endSession flag each variant computes from the event
endSessionFlag(v, raw) ==
    CASE v = "ts2" -> raw = JBool(TRUE) \/ raw = JStr("true")
      [] v = "ts1" -> raw = JStr("true")
      [] v = "mjs" -> (IF raw = JUndef THEN JStr("false") ELSE raw) = JStr("true")

\* the request askQuestion builds: POST to .../sessions/<sessionId>/text
buildRequest(v, ev) ==
    [sessionPath |-> templateString(ev.sessionId),
     inputText   |-> ev.question,
     enableTrace |-> TRUE,
     endSession  |-> endSessionFlag(v, ev.endSession),
     method      |-> "POST",
     service     |-> "bedrock"]

\* capturedOutput.join("\n")
traceText(trace) == join([i \in 1..Len(trace) |-> trace[i].line], << "\n" >>)

\* the success envelope of a variant
successEnvelope(v, d) ==
    IF v = "mjs"
    THEN [statusCode |-> 200, body |-> [response |-> d.answer]]
    ELSE [statusCode |-> 200,
          body |-> [response |-> traceText(d.trace), trace_data |-> d.answer]]

\* the failure envelope of a variant: error.message, or e.toString() in the
\* first copy of index.ts
failureEnvelope(v, e) ==
    IF v = "ts1"
    THEN [statusCode |-> 500, body |-> [error |-> << e.name, ": ", e.message >>]]
    ELSE [statusCode |-> 500, body |-> [error |-> << e.message >>]]

\* Fail with a retry: after a failure the request is signed and sent again
FailRetry(e) ==
    /\ pc' = IF sent < 2 THEN "signing" ELSE "done"
    /\ failure' = e
    /\ envelope' = IF sent < 2 THEN envelope ELSE failureEnvelope(variant, e)

\* the catch of lambdaHandler: the invocation ends with the failure envelope
Fail(e) ==
    /\ pc' = "done"
    /\ failure' = e
    /\ envelope' = failureEnvelope(variant, e)

\* Invoke with a validation of the event in front: an event missing a
\* required field is rejected with a 400 envelope and nothing is issued
InvokeValidating ==
    /\ pc = "start"
    /\ IF event.isNull
       THEN /\ pc' = "done"
            /\ escaped' = NullEventError
            /\ UNCHANGED << request, envelope >>
       ELSE IF event.sessionId = JUndef \/ event.question = JUndef
       THEN /\ pc' = "done"
            /\ envelope' = [statusCode |-> 400, body |-> [error |-> << "missing field" >>]]
            /\ UNCHANGED << request, escaped >>
       ELSE /\ pc' = "signing"
            /\ request' = buildRequest(variant, event)
            /\ UNCHANGED << escaped, envelope >>
    /\ UNCHANGED << variant, event, sent, response, decoded, failure >>
    /\ UNCHANGED << routeVars, chatVars >>

\* lambdaHandler is entered: the fields are read from the event (a null
\* event throws before the try), the flag and the URL are computed and
\* askQuestion starts sigv4Request, which awaits the credentials and the signer
Invoke ==
    /\ pc = "start"
    /\ IF event.isNull
       THEN /\ pc' = "done"
            /\ escaped' = NullEventError
            /\ UNCHANGED request
       ELSE /\ pc' = "signing"
            /\ request' = buildRequest(variant, event)
            /\ UNCHANGED escaped
    /\ UNCHANGED << variant, event, sent, response, decoded, failure, envelope >>
    /\ UNCHANGED << routeVars, chatVars >>

\* the credential provider or the signer rejects: no request goes out
SignReject ==
    /\ pc = "signing"
    /\ Fail(CredentialsError)
    /\ UNCHANGED << variant, event, request, sent, response, decoded, escaped >>
    /\ UNCHANGED << routeVars, chatVars >>

\* the signed request is handed to fetch
SendRequest ==
    /\ pc = "signing"
    /\ pc' = "awaitFetch"
    /\ sent' = sent + 1
    /\ UNCHANGED << variant, event, request, response, decoded, failure, envelope,
                    escaped >>
    /\ UNCHANGED << routeVars, chatVars >>

\* fetch rejects: the network failed
FetchReject ==
    /\ pc = "awaitFetch"
    /\ Fail(NetworkError)
    /\ UNCHANGED << variant, event, request, sent, response, decoded, escaped >>
    /\ UNCHANGED << routeVars, chatVars >>

\* fetch resolves with whatever status and body the service sent; neither
\* sigv4Request nor askQuestion looks at the status
FetchResolve ==
    /\ pc = "awaitFetch"
    /\ \E st \in Statuses, b \in HandlerBodies :
          response' = [status |-> st, body |-> b]
    /\ pc' = "awaitText"
    /\ UNCHANGED << variant, event, request, sent, decoded, failure, envelope,
                    escaped >>
    /\ UNCHANGED << routeVars, chatVars >>

\* response.text() rejects inside decodeResponse: the exception leaves
\* decodeResponse and askQuestion and reaches the catch of lambdaHandler
TextReject ==
    /\ pc = "awaitText"
    /\ decoded' = [entered |-> TRUE, read |-> FALSE, threw |-> TRUE,
                   trace |-> << >>, answer |-> << >>]
    /\ Fail(BodyReadError)
    /\ UNCHANGED << variant, event, request, sent, response, escaped >>
    /\ UNCHANGED << routeVars, chatVars >>

\* decodeResponse ended with d: lambdaHandler wraps what it returned, or
\* catches what it threw
Settle(d) ==
    /\ decoded' = [entered |-> TRUE, read |-> TRUE, threw |-> d.threw,
                   trace |-> d.trace, answer |-> d.answer]
    /\ failure' = IF d.threw THEN Error(d.name, d.message) ELSE failure
    /\ envelope' = IF d.threw
                   THEN failureEnvelope(variant, Error(d.name, d.message))
                   ELSE successEnvelope(variant, d)

\* response.text() resolves: decodeResponse runs to its end, and
\* lambdaHandler wraps what it returned or threw
TextResolve ==
    /\ pc = "awaitText"
    /\ pc' = "done"
    /\ Settle(decodeResponse(response.body, variant))
    /\ UNCHANGED << variant, event, request, sent, response, escaped >>
    /\ UNCHANGED << routeVars, chatVars >>

\* no route is serving the invocation
NoAnswer == [status |-> 0]

NoRoute ==
    /\ routePc = "none"
    /\ routeFailure = NoError
    /\ routeAnswer = NoAnswer

\* the most submits of one run of the Chat component
MaxSubmits == 2

\* an onSubmit that has not started
NoExchange ==
    [outcome |-> "none", reply |-> "none", userShown |-> FALSE,
     replyShown |-> FALSE, storeBefore |-> << >>]

\* no Chat component is mounted
NoChat ==
    /\ chatKind = "none"
    /\ messages = << >>
    /\ store = << >>
    /\ isLoading = FALSE
    /\ loadPc = "none"
    /\ submitPc = [n \in 1..MaxSubmits |-> "unborn"]
    /\ exchange = [n \in 1..MaxSubmits |-> NoExchange]
    /\ submits = 0

Init ==
    /\ variant \in Variants
    /\ event \in Events
    /\ pc = "start"
    /\ request = NoRequest
    /\ sent = 0
    /\ response = NoResponse
    /\ decoded = NoDecoded
    /\ failure = NoError
    /\ envelope = NoEnvelope
    /\ escaped = NoError
    /\ NoRoute
    /\ NoChat

Next ==
    \/ Invoke
    \/ SignReject
    \/ SendRequest
    \/ FetchReject
    \/ FetchResolve
    \/ TextReject
    \/ TextResolve

Spec == Init /\ [][Next]_vars
(***************************************************************************)
(* The decoder on its own: decodeResponse applied to bodies made of up to  *)
(* MaxSegs segments joined by ":message-type"                              *)
(***************************************************************************)

\* the most segments a body of the decoder specification has
MaxSegs == 2

\* the segments the bodies are made of
SegmentPool ==
    { <<"x">>,
      << >>,
      <<"{","\"","b","y","t","e","s","\"",":","\"","S","G","k","=","\"","}">>,
      <<"{","\"","b","y","t","e","s","\"",":","\"","I","k","h","p","I","g","=","=","\"","}">>,
      <<"{","\"","b","y","t","e","s","\"",":","\"","S","!","k","\"","}">>,
      <<"b","y","t","e","s">>,
      <<"b","y","t","e","s","\"","S","G","k","=","\"">>,
      <<"{","\"","f","i","n","a","l","R","e","s","p","o","n","s","e","\"",":","{","\"","t","e","x","t","\"",":","\"","Y","o","\"","}","}">>,
      <<"f","i","n","a","l","R","e","s","p","o","n","s","e","\"",":","\"","{","\"","t","e","x","t","\"",":","\"","H","i"," ","t","h","e","r","e","\"","}","\"","}">>,
      <<"f","i","n","a","l","R","e","s","p","o","n","s","e","\"",":","{","\"","t","e","x","t","\"",":","5",",","\"","a","\"",":","\"","\"","}">>,
      <<"f","i","n","a","l","R","e","s","p","o","n","s","e","\"",":","{","\"","a","\"",":","\"","b","\"","}">>,
      <<"f","i","n","a","l","R","e","s","p","o","n","s","e","\"",":","{">>,
      <<"f","i","n","a","l","R","e","s","p","o","n","s","e","\"",":","{","\"","t","e","x","t","\"",":","\"","{","i","n","p","u","t",":","{","v","a","l","u","e",":","H","i",",","s","o","u","r","c","e",":","n","u","l","l","}","}","\"","}">>,
      <<"f","i","n","a","l","R","e","s","p","o","n","s","e","\"",":","{","\"","t","e","x","t","\"",":","\"","{","i","n","p","u","t",":","{","{","i","n","p","u","t",":","{","v","a","l","u","e",":","v","a","l","u","e",":","\"","}">> }

\* the bodies of the decoder specification
DecodeBodies ==
    UNION { { join(segs, MessageTypeMarker) : segs \in [1..n -> SegmentPool] }
            : n \in 1..MaxSegs }

\* the event of the decoder specification
SampleEvent ==
    [isNull |-> FALSE, sessionId |-> JStr("s1"), question |-> JStr("Hello?"),
     endSession |-> JBool(FALSE)]

DecodeInit ==
    /\ variant \in Variants
    /\ event = SampleEvent
    /\ pc = "awaitText"
    /\ request = buildRequest(variant, event)
    /\ sent = 1
    /\ \E b \in DecodeBodies : response = [status |-> 200, body |-> b]
    /\ decoded = NoDecoded
    /\ failure = NoError
    /\ envelope = NoEnvelope
    /\ escaped = NoError
    /\ NoRoute
    /\ NoChat

DecodeNext ==
    \/ TextReject
    \/ TextResolve

DecodeSpec == DecodeInit /\ [][DecodeNext]_vars

(***************************************************************************)
(* POST /api/invoke-agent: the route around lambdaHandler.  The body of an *)
(* envelope is held as the object lambdaHandler gives to JSON.stringify;   *)
(* the route reads it back from the text with JSON.parse.                  *)
(***************************************************************************)

\* the properties an envelope body can have, in the order they are written
PropertyNames == << "response", "trace_data", "error" >>

\* the characters of a property name
NameChars(k) ==
    CASE k = "response"   -> <<"r","e","s","p","o","n","s","e">>
      [] k = "trace_data" -> <<"t","r","a","c","e","_","d","a","t","a">>
      [] k = "error"      -> <<"e","r","r","o","r">>

\* one character as JSON.stringify writes it between quotes
escapeChar(c) ==
    CASE c \in {"\"", "\\"} -> << "\\", c >>
      [] c = "\n" -> << "\\", "n" >>
      [] c = "\t" -> << "\\", "t" >>
      [] c = "\r" -> << "\\", "r" >>
      [] OTHER -> << c >>

\* the characters a..b of a string as JSON.stringify writes them
RECURSIVE escapeRange(_, _, _)
escapeRange(s, a, b) ==
    IF a > b THEN << >>
    ELSE IF a = b THEN escapeChar(s[a])
    ELSE escapeRange(s, a, (a + b) \div 2) \o escapeRange(s, ((a + b) \div 2) + 1, b)

escapeString(s) == escapeRange(s, 1, Len(s))

\* "name":"value"
stringifyProperty(k, v) ==
    Quote \o NameChars(k) \o Quote \o << ":" >> \o Quote \o escapeString(v) \o Quote

\* the properties a body has, in the order they are written
propertiesOf(body) == SelectSeq(PropertyNames, LAMBDA k : k \in DOMAIN body)

\* JSON.stringify of an envelope body
stringifyProperties(body, props) ==
    << "{" >>
    \o join([i \in 1..Len(props) |-> stringifyProperty(props[i], body[props[i]])],
            << "," >>)
    \o << "}" >>

stringifyObject(body) == stringifyProperties(body, propertiesOf(body))

\* how many backslashes stand immediately before position i
RECURSIVE backslashesBefore(_, _)
backslashesBefore(s, i) ==
    IF i > 1 /\ s[i - 1] = "\\" THEN 1 + backslashesBefore(s, i - 1) ELSE 0

\* the character at i is the second of an escape
escapedAt(s, i) == backslashesBefore(s, i) % 2 = 1

\* the least element of a set of positions, 0 when there is none
leastOf(S) == IF S = {} THEN 0 ELSE CHOOSE i \in S : \A j \in S : i <= j

\* the closing quote of the string that starts at p: 0 when there is none
closingQuote(s, p) ==
    leastOf({i \in p..Len(s) : s[i] = "\"" /\ ~escapedAt(s, i)})

\* the characters a..b of a string text stand for a string: no raw control
\* character, no escape JSON does not have
stringTextOk(s, a, b) ==
    \A i \in a..b :
        /\ s[i] \notin {"\n", "\t", "\r", "\f"}
        /\ escapedAt(s, i) => s[i] \in {"\"", "\\", "/", "b", "f", "n", "r", "t"}

\* the string the characters a..b of a string text stand for
RECURSIVE unescapeRange(_, _, _)
unescapeRange(s, a, b) ==
    IF a > b THEN << >>
    ELSE IF a = b
    THEN (IF escapedAt(s, a) THEN << Unescape(s[a]) >>
          ELSE IF s[a] = "\\" THEN << >> ELSE << s[a] >>)
    ELSE unescapeRange(s, a, (a + b) \div 2) \o unescapeRange(s, ((a + b) \div 2) + 1, b)

\* the string whose opening quote is at p - 1: where it ends and what it is
stringAt(s, p, close) ==
    IF close = 0 \/ ~stringTextOk(s, p, close - 1)
    THEN [ok |-> FALSE, pos |-> 0, str |-> << >>]
    ELSE [ok |-> TRUE, pos |-> close + 1, str |-> unescapeRange(s, p, close - 1)]

\* the members of an object text from position p on, acc the
\* <<name, value>> pairs read so far
MembersFail == [ok |-> FALSE, pairs |-> {}]

RECURSIVE memberName(_, _, _)
memberEnd(s, name, value, acc) ==
    IF ~value.ok \/ value.pos > Len(s) THEN MembersFail
    ELSE IF s[value.pos] = "," /\ value.pos < Len(s)
    THEN memberName(s, value.pos + 1, acc \cup {<< name.str, value.str >>})
    ELSE IF s[value.pos] = "}" /\ value.pos = Len(s)
    THEN [ok |-> TRUE, pairs |-> acc \cup {<< name.str, value.str >>}]
    ELSE MembersFail

memberValue(s, name, acc) ==
    IF ~name.ok \/ name.pos + 1 > Len(s) THEN MembersFail
    ELSE IF s[name.pos] # ":" \/ s[name.pos + 1] # "\"" THEN MembersFail
    ELSE memberEnd(s, name,
                   stringAt(s, name.pos + 2, closingQuote(s, name.pos + 2)), acc)

memberName(s, p, acc) ==
    IF p > Len(s) \/ s[p] # "\"" THEN MembersFail
    ELSE memberValue(s, stringAt(s, p + 1, closingQuote(s, p + 1)), acc)

\* the object a set of <<name, value>> pairs stands for
objectOf(pairs) ==
    [k \in {k \in {"response", "trace_data", "error"} :
               \E pr \in pairs : pr[1] = NameChars(k)}
       |-> (CHOOSE pr \in pairs : pr[1] = NameChars(k))[2]]

\* JSON.parse of the text of an envelope body: the object, or a SyntaxError
parsedMembers(members) ==
    IF members.ok THEN [ok |-> TRUE, val |-> objectOf(members.pairs)]
    ELSE [ok |-> FALSE, val |-> [error |-> << >>]]

parseObjectText(s) ==
    IF Len(s) < 2 \/ s[1] # "{"
    THEN [ok |-> FALSE, val |-> [error |-> << >>]]
    ELSE parsedMembers(memberName(s, 2, {}))

\* the request body could not be read as JSON
RequestJsonError == Error("SyntaxError", JsonErrorMessage)

\* the answer of the catch of the route
routeCaught(e) == [status |-> 500, body |-> [error |-> << e.message >>]]

\* NextResponse.json(JSON.parse(response.body), {status: response.statusCode}),
\* parsed being what JSON.parse made of the text of the body
routeWrapped(env, parsed) ==
    IF parsed.ok THEN [status |-> env.statusCode, body |-> parsed.val]
    ELSE routeCaught(RequestJsonError)

\* the route handler without its catch: what lambdaHandler throws leaves it
RouteReturnUncaught ==
    /\ routePc = "handling"
    /\ pc = "done"
    /\ IF escaped.threw
       THEN /\ routePc' = "escaped"
            /\ UNCHANGED << routeFailure, routeAnswer >>
       ELSE /\ routePc' = "answered"
            /\ routeAnswer' =
                  routeWrapped(envelope, parseObjectText(stringifyObject(envelope.body)))
            /\ UNCHANGED routeFailure
    /\ UNCHANGED << variant, event, pc, request, sent, response, decoded, failure,
                    envelope, escaped, chatVars >>

\* await req.json() rejects: the catch answers 500
RouteJsonReject ==
    /\ routePc = "reading"
    /\ routePc' = "answered"
    /\ routeFailure' = RequestJsonError
    /\ routeAnswer' = routeCaught(RequestJsonError)
    /\ UNCHANGED << variant, event, pc, request, sent, response, decoded, failure,
                    envelope, escaped, chatVars >>

\* await req.json() resolves with the payload, which lambdaHandler is called with
RouteJsonResolve ==
    /\ routePc = "reading"
    /\ routePc' = "handling"
    /\ pc' = "start"
    /\ UNCHANGED << variant, event, request, sent, response, decoded, failure,
                    envelope, escaped, routeFailure, routeAnswer, chatVars >>

\* lambdaHandler has ended: its envelope is parsed and answered, or what it
\* threw, or what JSON.parse threw, is caught and answered with 500
RouteReturn ==
    /\ routePc = "handling"
    /\ pc = "done"
    /\ routePc' = "answered"
    /\ IF escaped.threw
       THEN /\ routeFailure' = escaped
            /\ routeAnswer' = routeCaught(escaped)
       ELSE /\ routeFailure' =
                  IF parseObjectText(stringifyObject(envelope.body)).ok
                  THEN routeFailure ELSE RequestJsonError
            /\ routeAnswer' =
                  routeWrapped(envelope, parseObjectText(stringifyObject(envelope.body)))
    /\ UNCHANGED << variant, event, pc, request, sent, response, decoded, failure,
                    envelope, escaped, chatVars >>

RouteInit ==
    /\ variant \in Variants
    /\ event \in Events
    /\ pc = "unborn"
    /\ request = NoRequest
    /\ sent = 0
    /\ response = NoResponse
    /\ decoded = NoDecoded
    /\ failure = NoError
    /\ envelope = NoEnvelope
    /\ escaped = NoError
    /\ routePc = "reading"
    /\ routeFailure = NoError
    /\ routeAnswer = NoAnswer
    /\ NoChat

RouteNext ==
    \/ RouteJsonReject
    \/ RouteJsonResolve
    \/ Invoke
    \/ SignReject
    \/ SendRequest
    \/ FetchReject
    \/ FetchResolve
    \/ TextReject
    \/ TextResolve
    \/ RouteReturn

RouteSpec == RouteInit /\ [][RouteNext]_vars

(***************************************************************************)
(* The Chat component: "fetch" is the one that posts to /api/invoke-agent, *)
(* "direct" the one that calls lambdaHandler itself.  An exchange is one   *)
(* run of onSubmit; exchange n is the one started by the n-th submit.      *)
(***************************************************************************)

ChatKinds == {"fetch", "direct"}

\* what the user typed before the n-th submit
Question(n) == << "q", n >>

\* parsedBody.trace_data: the answer, or undefined when the body has none
Replies == {"answer", "undefined"}

ReplyContent(reply, n) == IF reply = "answer" THEN << "a", n >> ELSE << "undefined" >>

\* newMessage and assistantMessage: with an id from Date.now() in the
\* "fetch" component, without one in the "direct" component
UserMessage(kind, n) ==
    IF kind = "fetch"
    THEN [id |-> << "now", n >>, role |-> "user", content |-> Question(n)]
    ELSE [role |-> "user", content |-> Question(n)]

AssistantMessage(kind, reply, n) ==
    IF kind = "fetch"
    THEN [id |-> << "now", n >>, role |-> "assistant", content |-> ReplyContent(reply, n)]
    ELSE [role |-> "assistant", content |-> ReplyContent(reply, n)]

\* a record left in the store by an earlier session
OldRecord(kind) == AssistantMessage(kind, "answer", 0)

\* what loadHistory gives to setMessages: the records of the store, with
\* the id replaced by the index in the "fetch" component
mappedHistory(kind, records) ==
    IF kind = "fetch"
    THEN [i \in 1..Len(records) |->
            [id |-> << "index", i - 1 >>, role |-> records[i].role,
             content |-> records[i].content]]
    ELSE records

\* the HTTP statuses the API answers with, and the statusCode of an envelope
ApiStatuses == {200, 500}

\* the exchanges whose onSubmit has not ended
InFlight == {n \in 1..MaxSubmits : submitPc[n] \notin {"unborn", "ended"}}

\* the variables of lambdaHandler and of the route, which the component
\* does not touch
serverVars ==
    << variant, event, pc, request, sent, response, decoded, failure, envelope,
       escaped, routeVars >>

\* Submit without the disabled Send control: the form can be submitted while
\* an exchange is in flight
SubmitAlways ==
    /\ chatKind \in ChatKinds
    /\ submits < MaxSubmits
    /\ submits' = submits + 1
    /\ isLoading' = TRUE
    /\ messages' = Append(messages, UserMessage(chatKind, submits + 1))
    /\ submitPc' = [submitPc EXCEPT ![submits + 1] = "calling"]
    /\ exchange' = [exchange EXCEPT ![submits + 1] =
                       [outcome |-> "pending", reply |-> "none", userShown |-> TRUE,
                        replyShown |-> FALSE, storeBefore |-> store]]
    /\ UNCHANGED << chatKind, store, loadPc, serverVars >>

\* the form is submitted (the Send control is disabled while isLoading):
\* onSubmit sets the flag, appends the user message and starts the call
Submit ==
    /\ chatKind \in ChatKinds
    /\ ~isLoading
    /\ submits < MaxSubmits
    /\ submits' = submits + 1
    /\ isLoading' = TRUE
    /\ messages' = Append(messages, UserMessage(chatKind, submits + 1))
    /\ submitPc' = [submitPc EXCEPT ![submits + 1] = "calling"]
    /\ exchange' = [exchange EXCEPT ![submits + 1] =
                       [outcome |-> "pending", reply |-> "none", userShown |-> TRUE,
                        replyShown |-> FALSE, storeBefore |-> store]]
    /\ UNCHANGED << chatKind, store, loadPc, serverVars >>

\* catch and finally of onSubmit: the exchange ends and the flag is cleared
Finish(n, outcome) ==
    /\ submitPc' = [submitPc EXCEPT ![n] = "ended"]
    /\ exchange' = [exchange EXCEPT ![n].outcome = outcome]
    /\ isLoading' = FALSE

\* the reply is appended to the displayed list and openDatabase is awaited
ShowReply(n, reply) ==
    /\ messages' = Append(messages, AssistantMessage(chatKind, reply, n))
    /\ submitPc' = [submitPc EXCEPT ![n] = "dbOpening"]
    /\ exchange' = [exchange EXCEPT ![n].reply = reply, ![n].replyShown = TRUE]
    /\ UNCHANGED isLoading

\* CallNotOk that shows the failure as an assistant message
CallNotOkShown(n) ==
    /\ submitPc[n] = "calling"
    /\ messages' = Append(messages, AssistantMessage(chatKind, "undefined", n))
    /\ Finish(n, "failed")
    /\ UNCHANGED << chatKind, store, loadPc, submits, serverVars >>

\* fetch rejects: the catch logs the error
CallReject(n) ==
    /\ chatKind = "fetch"
    /\ submitPc[n] = "calling"
    /\ Finish(n, "failed")
    /\ UNCHANGED << chatKind, messages, store, loadPc, submits, serverVars >>

\* the API answers a status that is not OK, or lambdaHandler returns an
\* envelope whose statusCode is not 200: onSubmit throws and the catch logs it
CallNotOk(n) ==
    /\ submitPc[n] = "calling"
    /\ \E st \in ApiStatuses : st # 200
    /\ Finish(n, "failed")
    /\ UNCHANGED << chatKind, messages, store, loadPc, submits, serverVars >>

\* the API answers 200: the "fetch" component awaits response.json(); the
\* "direct" component parses the body of the envelope and shows the reply
CallOk(n) ==
    /\ submitPc[n] = "calling"
    /\ 200 \in ApiStatuses
    /\ IF chatKind = "fetch"
       THEN /\ submitPc' = [submitPc EXCEPT ![n] = "parsing"]
            /\ UNCHANGED << messages, exchange, isLoading >>
       ELSE \E reply \in Replies : ShowReply(n, reply)
    /\ UNCHANGED << chatKind, store, loadPc, submits, serverVars >>

\* response.json() rejects: the body is no JSON
ParseReject(n) ==
    /\ submitPc[n] = "parsing"
    /\ Finish(n, "failed")
    /\ UNCHANGED << chatKind, messages, store, loadPc, submits, serverVars >>

\* response.json() resolves: the reply is shown
ParseResolve(n) ==
    /\ submitPc[n] = "parsing"
    /\ \E reply \in Replies : ShowReply(n, reply)
    /\ UNCHANGED << chatKind, store, loadPc, submits, serverVars >>

\* openDatabase rejects: the reply stays displayed and is not stored
DbOpenReject(n) ==
    /\ submitPc[n] = "dbOpening"
    /\ Finish(n, "persistFailed")
    /\ UNCHANGED << chatKind, messages, store, loadPc, submits, serverVars >>

DbOpenResolve(n) ==
    /\ submitPc[n] = "dbOpening"
    /\ submitPc' = [submitPc EXCEPT ![n] = "dbAdding"]
    /\ UNCHANGED << chatKind, messages, store, isLoading, loadPc, exchange, submits,
                    serverVars >>

\* store.add fails
DbAddReject(n) ==
    /\ submitPc[n] = "dbAdding"
    /\ Finish(n, "persistFailed")
    /\ UNCHANGED << chatKind, messages, store, loadPc, submits, serverVars >>

\* store.add succeeds: the assistant message is appended to the store
DbAddResolve(n) ==
    /\ submitPc[n] = "dbAdding"
    /\ store' = Append(store, AssistantMessage(chatKind, exchange[n].reply, n))
    /\ Finish(n, "ok")
    /\ UNCHANGED << chatKind, messages, loadPc, submits, serverVars >>

\* loadHistory: openDatabase rejects, nothing is loaded
LoadOpenReject ==
    /\ loadPc = "opening"
    /\ loadPc' = "failed"
    /\ UNCHANGED << chatKind, messages, store, isLoading, submitPc, exchange, submits,
                    serverVars >>

LoadOpenResolve ==
    /\ loadPc = "opening"
    /\ loadPc' = "reading"
    /\ UNCHANGED << chatKind, messages, store, isLoading, submitPc, exchange, submits,
                    serverVars >>

\* loadHistory: getAll fails
LoadReadReject ==
    /\ loadPc = "reading"
    /\ loadPc' = "failed"
    /\ UNCHANGED << chatKind, messages, store, isLoading, submitPc, exchange, submits,
                    serverVars >>

\* loadHistory: getAll gives the records and setMessages replaces the
\* displayed list with them
LoadReadResolve ==
    /\ loadPc = "reading"
    /\ loadPc' = "loaded"
    /\ messages' = mappedHistory(chatKind, store)
    /\ UNCHANGED << chatKind, store, isLoading, submitPc, exchange, submits, serverVars >>

\* the page is opened again once nothing is in flight: a new session whose
\* list is empty until loadHistory fills it
Remount ==
    /\ chatKind \in ChatKinds
    /\ InFlight = {}
    /\ loadPc \in {"loaded", "failed"}
    /\ messages # << >>
    /\ messages' = << >>
    /\ loadPc' = "opening"
    /\ exchange' = [n \in 1..MaxSubmits |->
                      [exchange[n] EXCEPT !.userShown = FALSE, !.replyShown = FALSE]]
    /\ UNCHANGED << chatKind, store, isLoading, submitPc, submits, serverVars >>

ChatInit ==
    /\ variant = "ts2"
    /\ event = SampleEvent
    /\ pc = "unborn"
    /\ request = NoRequest
    /\ sent = 0
    /\ response = NoResponse
    /\ decoded = NoDecoded
    /\ failure = NoError
    /\ envelope = NoEnvelope
    /\ escaped = NoError
    /\ NoRoute
    /\ chatKind \in ChatKinds
    /\ messages = << >>
    /\ store \in {<< >>, << OldRecord(chatKind) >>}
    /\ isLoading = FALSE
    /\ loadPc = "opening"
    /\ submitPc = [n \in 1..MaxSubmits |-> "unborn"]
    /\ exchange = [n \in 1..MaxSubmits |-> NoExchange]
    /\ submits = 0

\* a promise awaited by an onSubmit settles
SubmitSettles ==
    \E n \in 1..MaxSubmits :
        \/ CallReject(n)
        \/ CallNotOk(n)
        \/ CallOk(n)
        \/ ParseReject(n)
        \/ ParseResolve(n)
        \/ DbOpenReject(n)
        \/ DbOpenResolve(n)
        \/ DbAddReject(n)
        \/ DbAddResolve(n)

ChatNext ==
    \/ Submit
    \/ SubmitSettles
    \/ LoadOpenReject
    \/ LoadOpenResolve
    \/ LoadReadReject
    \/ LoadReadResolve
    \/ Remount

ChatSpec == ChatInit /\ [][ChatNext]_vars

\* every promise an onSubmit awaits settles
ChatLiveSpec == ChatSpec /\ WF_vars(SubmitSettles)

(***************************************************************************)
(* Vocabulary of the properties                                            *)
(***************************************************************************)

\* the segments of the body the response carried
Segments == split(response.body, MessageTypeMarker)

\* a segment is payload-bearing when it contains "bytes"
PayloadBearing(seg) == includes(seg, BytesMarker)

\* the 1-based positions of the payload-bearing segments
PayloadIndexes == {i \in 1..Len(Segments) : PayloadBearing(Segments[i])}

\* the last payload-bearing segment in body order
LastPayload ==
    Segments[CHOOSE i \in PayloadIndexes : \A j \in PayloadIndexes : j <= i]

\* the quoted value of a segment: its fourth quote-delimited field
QuotedValue(seg) ==
    IF Len(split(seg, Quote)) > 3 THEN split(seg, Quote)[4] ELSE << >>

\* decodeResponse got the text of the body and ran
TextRead == pc = "done" /\ decoded.read

\* decodeResponse returned a (trace, answer) pair
DecodeReturned == TextRead /\ ~decoded.threw

\* the handler is one of the two TypeScript copies
IsTs == variant \in {"ts1", "ts2"}

\* the body holds 'finalResponse":' and a '"}' after it
HasFragment ==
    /\ includes(response.body, searchString)
    /\ includes(substringFrom(response.body,
                              indexOf(response.body, searchString) + Len(searchString)),
                QuoteBrace)

\* what follows the first 'finalResponse":'
AfterMarker ==
    substringFrom(response.body,
                  indexOf(response.body, searchString) + Len(searchString))

\* from just after the first 'finalResponse":' through the first '"}'
Fragment == substring(AfterMarker, 0, indexOf(AfterMarker, QuoteBrace) + 2)

\* the trace holds an entry of this kind
Traced(kind) == \E i \in 1..Len(decoded.trace) : decoded.trace[i].kind = kind

\* the body of the specification's example, and two bodies in the format
\* the fallback reads
QuotedExample == <<"f","i","n","a","l","R","e","s","p","o","n","s","e","\"",":","\"","{","\"","t","e","x","t","\"",":","\"","H","i"," ","t","h","e","r","e","\"","}","\"","}">>

ObjectExample == <<"{","\"","f","i","n","a","l","R","e","s","p","o","n","s","e","\"",":","{","\"","t","e","x","t","\"",":","\"","Y","o","\"","}","}">>

NoiseExample == <<"f","i","n","a","l","R","e","s","p","o","n","s","e","\"",":","{","\"","t","e","x","t","\"",":","\"","{","i","n","p","u","t",":","{","v","a","l","u","e",":","H","i",",","s","o","u","r","c","e",":","n","u","l","l","}","}","\"","}">>

(***************************************************************************)
(* C1                                                                      *)
(***************************************************************************)

\* C1: whenever the body has at least one payload-bearing segment, the
\* answer is the normalized base64-decoded text of the last payload-bearing
\* segment, also when non-payload segments follow it.
C1_LastPayloadWins ==
    (TextRead /\ PayloadIndexes # {}) =>
        /\ ~decoded.threw
        /\ decoded.answer =
              normalize(BufferFromBase64ToString(QuotedValue(LastPayload)))

(***************************************************************************)
(* C2                                                                      *)
(***************************************************************************)

\* the JSON text between 'finalResponse":"' and the closing '"}' of a body
\* that quotes it, as the specification's example does
QuotedJsonText ==
    substring(AfterMarker, 1, Len(AfterMarker) - 2)

Parsable ==
    /\ HasFragment
    /\ JSONparse(Fragment).ok
    /\ JSONparse(Fragment).val.textT # "undefined"

\* C3: a body with neither a payload-bearing segment nor a parsable
\* 'finalResponse":' fragment is decoded to the empty answer.
C3_EmptyAnswer ==
    (TextRead /\ PayloadIndexes = {} /\ ~Parsable) =>
        /\ ~decoded.threw
        /\ decoded.answer = << >>

\* C3, witness: a body whose fragment is no JSON was decoded, the error was
\* traced and the answer is empty
C3_Witness ==
    /\ TextRead /\ IsTs
    /\ PayloadIndexes = {}
    /\ HasFragment /\ ~JSONparse(Fragment).ok
    /\ Traced("jsonError")
    /\ decoded.answer = << >>

(***************************************************************************)
(* C4                                                                      *)
(***************************************************************************)

\* C4: decodeResponse is total: once entered it returns a (trace, answer)
\* pair, whatever the body and also when reading the body fails.
C4_DecodeTotal == decoded.entered => ~decoded.threw

(***************************************************************************)
(* C5                                                                      *)
(***************************************************************************)

\* C5: the answer is a fixed point of the normalization: it holds no double
\* quote and neither noise substring.
C5_NormalizeIdempotent ==
    (DecodeReturned /\ IsTs) =>
        /\ normalize(decoded.answer) = decoded.answer
        /\ ~includes(decoded.answer, Quote)
        /\ ~includes(decoded.answer, NoiseInput)
        /\ ~includes(decoded.answer, NoiseSource)

(***************************************************************************)
(* C6                                                                      *)
(***************************************************************************)

\* C6: in every handler, the request carries endSession = true exactly when
\* the event's endSession is the string "true" or the boolean true.
C6_EndSessionFlag ==
    (pc # "start" /\ ~event.isNull) =>
        (request.endSession <=> event.endSession \in {JStr("true"), JBool(TRUE)})

(***************************************************************************)
(* C7                                                                      *)
(***************************************************************************)

\* C7: lambdaHandler always ends with an envelope and never throws: 200 with
\* response = the trace and trace_data = the answer when issuer and decoder
\* complete, 500 with error = exactly the message when either throws.
C7_Envelope ==
    pc = "done" =>
        /\ ~escaped.threw
        /\ IF failure.threw
           THEN envelope = [statusCode |-> 500,
                            body |-> [error |-> << failure.message >>]]
           ELSE envelope = [statusCode |-> 200,
                            body |-> [response |-> traceText(decoded.trace),
                                      trace_data |-> decoded.answer]]

(***************************************************************************)
(* C8                                                                      *)
(***************************************************************************)

\* C8: a non-2xx answer of the agent service is never decoded and never
\* gives a 200 envelope: the handler ends with a 500 envelope.
C8_NonOkIsFailure ==
    (pc = "done" /\ response.status # 0
       /\ (response.status < 200 \/ response.status > 299)) =>
        /\ ~decoded.read
        /\ envelope.statusCode = 500

(***************************************************************************)
(* C9                                                                      *)
(***************************************************************************)

\* the entries of segment i come before those of segment j when i < j
TraceOrdered ==
    \A a, b \in 1..Len(decoded.trace) :
        (a < b /\ decoded.trace[a].seg >= 0 /\ decoded.trace[b].seg >= 0)
            => decoded.trace[a].seg <= decoded.trace[b].seg

\* what the decoder gives for the body cut after its first k segments
PrefixDecoded(k) ==
    decodeResponse(join(SubSeq(Segments, 1, k), MessageTypeMarker), variant)

\* C9: the trace is ordered like the body, and a body never gives a shorter
\* trace than its prefix with fewer segments.
C9_TraceMonotone ==
    (DecodeReturned /\ IsTs) =>
        /\ TraceOrdered
        /\ \A k \in 1..(Len(Segments) - 1) :
              ~PrefixDecoded(k).threw =>
                  Len(PrefixDecoded(k).trace) <= Len(decoded.trace)


(***************************************************************************)
(* C10                                                                     *)
(***************************************************************************)

\* a quoted value that is no base64: a character outside the alphabet, or a
\* length no base64 text has
Malformed(value) ==
    \/ hasNonBase64Char(stripPadding(value))
    \/ Len(stripPadding(value)) % 4 = 1

\* the payload-bearing segments that carry a quoted value
Carrying == {i \in PayloadIndexes : Len(split(Segments[i], Quote)) > 3}

\* those whose value is base64
Valid == {i \in Carrying : ~Malformed(QuotedValue(Segments[i]))}

\* the answer computed from the valid payload-bearing segments
AnswerOfValid ==
    IF Valid = {} THEN << >>
    ELSE normalize(BufferFromBase64ToString(
             QuotedValue(Segments[CHOOSE i \in Valid : \A j \in Valid : j <= i])))

\* C10: a payload-bearing segment with malformed base64, wherever it
\* stands, gets an error entry in the trace and is skipped; the answer comes
\* from the valid payload-bearing segments and nothing is thrown.
C10_MalformedSkipped ==
    (TextRead /\ Carrying # Valid) =>
        /\ ~decoded.threw
        /\ \A i \in Carrying \ Valid :
              \E e \in 1..Len(decoded.trace) :
                  decoded.trace[e].seg = i - 1 /\ decoded.trace[e].kind = "base64error"
        /\ decoded.answer = AnswerOfValid

(***************************************************************************)
(* C11                                                                     *)
(***************************************************************************)

\* the last segment of the body
LastSegment == Segments[Len(Segments)]

\* the double-quoted strings of a segment: the fields between its first and
\* second double quote, its third and fourth, and so on
QuotedStrings(seg) ==
    { split(seg, Quote)[2 * k] : k \in 1..((Len(split(seg, Quote)) - 1) \div 2) }

\* those that are base64 text
QuotedBase64(seg) ==
    { q \in QuotedStrings(seg) : Len(q) > 0 /\ ~Malformed(q) }

\* C11: when the last segment contains "bytes" and a double-quoted base64
\* string, the answer is the normalized decoding of that string, whichever
\* quote-delimited field holds it.
C11_QuotedAnywhere ==
    (TextRead /\ PayloadBearing(LastSegment) /\ QuotedBase64(LastSegment) # {}) =>
        /\ ~decoded.threw
        /\ \E q \in QuotedBase64(LastSegment) :
              decoded.answer = normalize(BufferFromBase64ToString(q))

(***************************************************************************)
(* C12                                                                     *)
(***************************************************************************)

\* the trace entries pushed by the loop iteration of the 1-based segment i
EntriesOf(i) == {e \in 1..Len(decoded.trace) : decoded.trace[e].seg = i - 1}

\* C12: every segment of the body contributes at least one entry to the
\* trace, also a segment that contains "bytes" but has fewer than four
\* quote-delimited fields.
C12_EverySegmentTraced ==
    (DecodeReturned /\ IsTs) =>
        \A i \in 1..Len(Segments) : EntriesOf(i) # {}

(***************************************************************************)
(* C13                                                                     *)
(***************************************************************************)

\* the event is an object that lacks sessionId, question or both
MissingField ==
    ~event.isNull /\ (event.sessionId = JUndef \/ event.question = JUndef)

\* the envelope the outcome of issuer and decoder alone decides
OutcomeEnvelope ==
    IF failure.threw THEN failureEnvelope(variant, failure)
    ELSE successEnvelope(variant, decoded)

\* C13: an event missing sessionId or question is not validated: the request
\* is built with the undefined values ("undefined" in the URL, no inputText)
\* and handed to the issuer, which sends it once unless signing it fails, and
\* the handler ends with the 200 or 500 envelope that the outcome of issuer
\* and decoder decides, never with a rejection of the event.
C13_NoValidation ==
    (MissingField /\ pc # "start") =>
        /\ request.method = "POST"
        /\ request.sessionPath =
              (IF event.sessionId = JUndef THEN "undefined" ELSE event.sessionId.v)
        /\ request.inputText = event.question
        /\ pc \in {"awaitFetch", "awaitText"} => sent = 1
        /\ pc = "done" =>
              /\ sent = (IF failure = CredentialsError THEN 0 ELSE 1)
              /\ ~escaped.threw
              /\ envelope.statusCode \in {200, 500}
              /\ envelope = OutcomeEnvelope

\* C13, witness: an event with neither field went out as one request and
\* came back as a 200 envelope
C13_Witness ==
    /\ pc = "done"
    /\ ~event.isNull /\ event.sessionId = JUndef /\ event.question = JUndef
    /\ request.sessionPath = "undefined"
    /\ sent = 1
    /\ envelope.statusCode = 200

(***************************************************************************)
(* C14                                                                     *)
(***************************************************************************)

\* at most one request has gone out, and a failure has ended the invocation
\* with the failure envelope
SingleRequest ==
    /\ sent <= 1
    /\ failure.threw =>
          /\ pc = "done"
          /\ envelope = failureEnvelope(variant, failure)
          /\ envelope.statusCode = 500

\* C14: an execution of lambdaHandler issues at most one request to the
\* agent service; a transport or decode failure ends the invocation with the
\* failure envelope, and once the invocation has ended nothing more happens,
\* so no request follows a failure.
C14_NoRetry ==
    /\ []SingleRequest
    /\ [][pc # "done" /\ ~failure.threw]_vars

\* C14, witness: the one request failed in transport and the invocation
\* ended with the failure envelope
C14_Witness ==
    /\ pc = "done"
    /\ failure = NetworkError
    /\ sent = 1
    /\ envelope.statusCode = 500

(***************************************************************************)
(* C15                                                                     *)
(***************************************************************************)

\* something was thrown inside the try of the route: req.json() rejected,
\* lambdaHandler threw, or the body of the envelope did not parse
RouteThrew ==
    \/ pc = "unborn"
    \/ escaped.threw
    \/ ~parseObjectText(stringifyObject(envelope.body)).ok

\* a step of the route or of the handler it awaits is pending: the guards
\* of the actions of RouteNext
RoutePending ==
    \/ routePc = "reading"
    \/ routePc = "handling"
          /\ pc \in {"start", "signing", "awaitFetch", "awaitText", "done"}

\* C15: the route always answers and lets no exception out: in every state
\* it has answered or one of its steps is pending, and what it answers is
\* the status of the envelope with the parsed body of the envelope, or, when
\* reading the request, the handler or the parse throws, 500 with
\* {error: message}.
C15_RouteAnswers ==
    /\ routePc = "answered" \/ RoutePending
    /\ routePc = "answered" =>
          /\ routeFailure.threw <=> RouteThrew
          /\ IF routeFailure.threw
             THEN routeAnswer = [status |-> 500,
                                 body |-> [error |-> << routeFailure.message >>]]
             ELSE /\ routeAnswer.status = envelope.statusCode
                  /\ routeAnswer.body = envelope.body

\* C15, witness: the route answered with the 200 envelope of a handler that
\* returns trace and answer
C15_Witness ==
    /\ routePc = "answered"
    /\ ~routeFailure.threw
    /\ routeAnswer.status = 200
    /\ DOMAIN routeAnswer.body = {"response", "trace_data"}
    /\ routeAnswer.body.trace_data = << "H", "i" >>

\* C15, second witness case: a null payload made lambdaHandler throw and the
\* route answered 500
C15_NullWitness ==
    /\ routePc = "answered"
    /\ event.isNull
    /\ routeAnswer = [status |-> 500, body |-> [error |-> << NullEventError.message >>]]

(***************************************************************************)
(* C16                                                                     *)
(***************************************************************************)

\* the store holds a record with this role and content
InStore(role, content) ==
    \E i \in 1..Len(store) : store[i].role = role /\ store[i].content = content

\* the displayed list holds a message with this role and content
Displayed(role, content) ==
    \E i \in 1..Len(messages) :
        messages[i].role = role /\ messages[i].content = content

\* the exchanges that got their reply: user question plus agent reply
Replied == {n \in 1..MaxSubmits : exchange[n].reply # "none" /\ submitPc[n] = "ended"}

\* the store holds the question and the reply of every exchange that ended
\* with a reply
HistoryComplete ==
    \A n \in Replied :
        /\ InStore("user", Question(n))
        /\ InStore("assistant", ReplyContent(exchange[n].reply, n))

\* a step keeps every stored record where it is
AppendOnly ==
    /\ Len(store) <= Len(store')
    /\ SubSeq(store', 1, Len(store)) = store

\* a history load shows the whole store
LoadsWholeStore ==
    (loadPc = "reading" /\ loadPc' = "loaded") =>
        /\ Len(messages') = Len(store)
        /\ \A i \in 1..Len(store) :
              /\ messages'[i].role = store[i].role
              /\ messages'[i].content = store[i].content

\* C16: the persisted history is append-only, is loaded whole at session
\* start, and after every exchange holds that exchange's messages, the user
\* question and the agent reply.
C16_HistoryAppendOnlyComplete ==
    /\ [][AppendOnly /\ LoadsWholeStore]_vars
    /\ []HistoryComplete

(***************************************************************************)
(* C17                                                                     *)
(***************************************************************************)

\* the displayed list holds this message
Shown(m) == \E i \in 1..Len(messages) : messages[i] = m

\* C17: a message appended to the displayed list by onSubmit in this session
\* is still displayed, however the completion of loadHistory interleaves
\* with the submit and its reply.
C17_LoadKeepsSubmitted ==
    \A n \in 1..MaxSubmits :
        /\ exchange[n].userShown => Shown(UserMessage(chatKind, n))
        /\ exchange[n].replyShown =>
              Shown(AssistantMessage(chatKind, exchange[n].reply, n))

(***************************************************************************)
(* C18                                                                     *)
(***************************************************************************)

\* the flag is set exactly while an onSubmit is running, and at most one is
OneInFlight ==
    /\ Cardinality(InFlight) <= 1
    /\ isLoading <=> InFlight # {}

\* the step that ends an onSubmit leaves the flag cleared
EndClearsFlag ==
    \A n \in 1..MaxSubmits :
        (submitPc[n] # "ended" /\ submitPc'[n] = "ended") => ~isLoading'

\* C18: every submit eventually returns the loading flag to false, whether
\* the request succeeds, the API answers a status that is not OK, the call
\* or the parsing throws, or persisting fails; the Send control is disabled
\* while the flag is set, so at most one request is in flight.
C18_LoadingCleared ==
    /\ []OneInFlight
    /\ [][EndClearsFlag]_vars
    /\ \A n \in 1..MaxSubmits : (n \in InFlight) ~> (submitPc[n] = "ended" /\ ~isLoading)
    /\ isLoading ~> ~isLoading

\* C18, witness: an exchange whose reply could not be persisted has ended
\* and the flag is cleared
C18_Witness ==
    /\ submitPc[1] = "ended"
    /\ exchange[1].outcome = "persistFailed"
    /\ ~isLoading

(***************************************************************************)
(* C19                                                                     *)
(***************************************************************************)

\* this step is the failure of exchange n: the API answered a status that
\* is not OK, or the call or the parsing of the body threw
FailsNow(n) == exchange[n].outcome = "pending" /\ exchange'[n].outcome = "failed"

\* the failing step changes neither the store nor the displayed list, the
\* store is as the submit found it, and the exchange has shown no reply
FailureFrame ==
    \A n \in 1..MaxSubmits :
        FailsNow(n) =>
            /\ store' = store
            /\ store = exchange[n].storeBefore
            /\ messages' = messages
            /\ exchange'[n].reply = "none"
            /\ ~exchange'[n].replyShown

\* what the submit itself changes is the user message it appends
SubmitFrame ==
    submits' # submits =>
        /\ messages' = Append(messages, UserMessage(chatKind, submits'))
        /\ store' = store

\* C19: a failed exchange leaves the persisted history unchanged and adds no
\* assistant message to the displayed list; its only change to the list is
\* the user message appended before the call.
C19_FailedExchangeFrame == [][FailureFrame /\ SubmitFrame]_vars

\* C19, witness: an exchange failed over a store that held a record; the
\* store is as before and the list ends with the user message, after the
\* loaded history
C19_Witness ==
    /\ exchange[1].outcome = "failed"
    /\ submits = 1
    /\ store # << >>
    /\ store = exchange[1].storeBefore
    /\ ~exchange[1].replyShown
    /\ Len(messages) > 1
    /\ messages[Len(messages)] = UserMessage(chatKind, 1)

====
